---- MODULE Spec2Model ----
(***************************************************************************)
(* Model of madang_manager.py: a Streamlit script over the MySQL database  *)
(* "madang" (tables Customer, Book, Orders).  Every user interaction with  *)
(* a session re-executes the whole script: the book list is loaded, tab 1  *)
(* looks the typed customer name up and writes the session state, tab 2    *)
(* reads the session state and offers the order entry.                     *)
(*                                                                         *)
(* Python values: None is the empty sequence and a present value v is the  *)
(* one-element sequence <<v>>; a str that the code takes apart (the book   *)
(* option "id,name") is a sequence of one-character strings.               *)
(***************************************************************************)
EXTENDS Integers, Sequences, FiniteSets, TLC

\* ---------------------------------------------------------------- bounds
MaxOrders == 2                       \* rows of Orders at start, and their ids

Sessions == {1}                      \* browser sessions of Spec
RaceSessions == {1, 2}               \* browser sessions of SpecRace
CustIds == 0 .. 1                    \* Customer.custid values
Names == {"a", "b"}                  \* Customer.name values
NameInputs == Names \cup {""}        \* what can be typed in the text input
Prices == {0, 100}                   \* sale prices (number_input, step 100)
BookRows == { [bookid |-> 1, bookname |-> <<"x">>],
              [bookid |-> 2, bookname |-> <<"y", ",", "z">>] }
BookTables == { {}, BookRows }       \* the Book table: empty, or both rows
OldPrices == {100}                   \* saleprice of the rows present at start
OldDate == "2024-07-01"              \* orderdate of the rows present at start
Today == "today"                     \* date.today().strftime('%Y-%m-%d')

None == << >>
Some(v) == << v >>

VARIABLES Customer, Book, Orders, session_state, widgets, page, pc, pending

vars == << Customer, Book, Orders, session_state, widgets, page, pc, pending >>

\* ------------------------------------------------------- python helpers
\* Truth value of an Optional[int] in "if custid:" (None and 0 are false).
TruthyInt(opt) == opt # None /\ opt[1] # 0

\* Truth value of a list or str (empty is false); None is false as well.
TruthyList(l) == Len(l) > 0

DigitChar == << "0", "1", "2", "3", "4", "5", "6", "7", "8", "9" >>

\* str(n) of a natural number, as in the f-string f"{item['bookid']},...".
RECURSIVE Str(_)
Str(n) == IF n < 10 THEN << DigitChar[n + 1] >>
          ELSE Str(n \div 10) \o << DigitChar[(n % 10) + 1] >>

\* f"{item['bookid']},{item['bookname']}"
FormatOption(item) == Str(item.bookid) \o << "," >> \o item.bookname

\* select_book.split(",")[0]: the characters before the first comma.
RECURSIVE SplitFirst(_)
SplitFirst(str) ==
    IF str = << >> \/ Head(str) = "," THEN << >>
    ELSE << Head(str) >> \o SplitFirst(Tail(str))

DigitValue(c) == CHOOSE d \in 0 .. 9 : DigitChar[d + 1] = c

\* The integer MySQL stores when an INT column is given a string of digits.
RECURSIVE ParseInt(_)
ParseInt(str) ==
    IF str = << >> THEN 0
    ELSE ParseInt(SubSeq(str, 1, Len(str) - 1)) * 10 + DigitValue(str[Len(str)])

\* A result set without ORDER BY comes back in an order the database picks.
\* The script reads the rows as a whole and the first row alone by position,
\* so the orderings are told apart by the row that comes first.
Orderings(rows) ==
    IF Len(rows) <= 1 THEN { rows }
    ELSE { << rows[k] >> \o SubSeq(rows, 1, k - 1) \o SubSeq(rows, k + 1, Len(rows))
           : k \in 1 .. Len(rows) }

\* A set of integers as the ascending list.
RECURSIVE Ascending(_)
Ascending(S) ==
    IF S = {} THEN << >>
    ELSE LET m == CHOOSE x \in S : \A y \in S : x <= y
         IN  << m >> \o Ascending(S \ {m})

\* ------------------------------------------------------- SQL statements
Statements == { "books", "join", "cust", "max", "insert" }

\* SELECT bookid, bookname FROM Book
SelectBooks ==
    LET ids == Ascending({ b.bookid : b \in Book })
    IN  [i \in 1 .. Len(ids) |-> CHOOSE b \in Book : b.bookid = ids[i]]

\* SELECT c.custid, c.name, b.bookname, o.orderdate, o.saleprice
\* FROM Customer c JOIN Orders o ON c.custid = o.custid
\* JOIN Book b ON o.bookid = b.bookid WHERE c.name = %s
RECURSIVE JoinFrom(_, _)
JoinFrom(i, name) ==
    IF i > Len(Orders) THEN << >>
    ELSE LET o == Orders[i]
             cs == { c \in Customer : c.custid = o.custid /\ c.name = name }
             bs == { b \in Book : b.bookid = o.bookid }
             rows == { [custid |-> c.custid, name |-> c.name, bookname |-> b.bookname,
                        orderdate |-> o.orderdate, saleprice |-> o.saleprice]
                       : c \in cs, b \in bs }
         IN  (IF rows = {} THEN << >> ELSE << CHOOSE r \in rows : TRUE >>)
             \o JoinFrom(i + 1, name)

\* The join read with fetchone(): the first row alone.
SelectJoinFetchOne(name) ==
    LET rows == JoinFrom(1, name)
    IN  IF rows = << >> THEN rows ELSE << rows[1] >>

SelectJoin(name) == JoinFrom(1, name)

\* The customer query with its WHERE clause left out.
SelectCustNoWhere(name) ==
    LET ids == Ascending({ c.custid : c \in Customer })
    IN  [i \in 1 .. Len(ids) |-> [custid |-> ids[i]]]

\* SELECT custid FROM Customer WHERE name = %s
SelectCust(name) ==
    LET ids == Ascending({ c.custid : c \in { x \in Customer : x.name = name } })
    IN  [i \in 1 .. Len(ids) |-> [custid |-> ids[i]]]

\* SELECT MAX(orderid) AS max_id FROM Orders: one row, max_id NULL on no rows.
SelectMax ==
    LET ids == { Orders[i].orderid : i \in 1 .. Len(Orders) }
    IN  << [max_id |-> IF ids = {} THEN None
                       ELSE Some(CHOOSE m \in ids : \A k \in ids : k <= m)] >>

\* run_query(sql, params) without commit: what the call can return while the
\* database rejects the statements in F (pymysql.Error is caught, [] returned).
RunQuery(stmt, F, rows) == IF stmt \in F THEN { << >> } ELSE Orderings(rows)

\* A statement that removes the newest Orders row.
SelectEffectTruncates ==
    /\ UNCHANGED << Customer, Book >>
    /\ Orders' = SubSeq(Orders, 1, Len(Orders) - 1)

\* run_query without commit=True executes a SELECT and commits nothing: the
\* tables stay as they are.
SelectEffect == UNCHANGED << Customer, Book, Orders >>

\* The keyword parameters run_query declares.
RunQueryParams == { "sql", "params", "commit" }

\* Python binds a call's arguments before the body runs; a keyword the
\* function does not declare raises TypeError at the call.
CallBinds(kwargs) == kwargs \subseteq RunQueryParams

\* The keywords of the call at line 127: run_query("SELECT MAX...", fetch_all=False).
MaxCallKwargs == { "sql", "fetch_all" }

\* ------------------------------------------------------------- the script
Range(f) == { f[i] : i \in DOMAIN f }

\* books = [None] + [f"{bookid},{bookname}" ...]
BookOptions(books_data) ==
    << None >> \o [i \in 1 .. Len(books_data) |-> FormatOption(books_data[i])]

\* "if 'current_custid' not in st.session_state": the first run sets the keys.
InitKeys(ss) ==
    IF ss.has THEN ss
    ELSE [has |-> TRUE, current_custid |-> None, current_name |-> Some("")]

\* Tab 1 with the not-found branch leaving the session state as it was.
Tab1KeepsCustomer(ss, name, result_list, cust_info) ==
    IF name = "" THEN [view |-> "blank", ss |-> ss]
    ELSE IF TruthyList(result_list)
    THEN [view |-> "orders",
          ss |-> [ss EXCEPT !.current_custid = Some(result_list[1].custid),
                            !.current_name = Some(name)]]
    ELSE IF TruthyList(cust_info)
    THEN [view |-> "no_orders",
          ss |-> [ss EXCEPT !.current_custid = Some(cust_info[1].custid),
                            !.current_name = Some(name)]]
    ELSE [view |-> "not_found", ss |-> ss]

\* Tab 1 (lines 60-104): the view it renders and the session state it leaves.
\* result_list and cust_info are what the two run_query calls returned.
Tab1(ss, name, result_list, cust_info) ==
    IF name = "" THEN [view |-> "blank", ss |-> ss]
    ELSE IF TruthyList(result_list)
    THEN [view |-> "orders",
          ss |-> [ss EXCEPT !.current_custid = Some(result_list[1].custid),
                            !.current_name = Some(name)]]
    ELSE IF TruthyList(cust_info)
    THEN [view |-> "no_orders",
          ss |-> [ss EXCEPT !.current_custid = Some(cust_info[1].custid),
                            !.current_name = Some(name)]]
    ELSE [view |-> "not_found",
          ss |-> [ss EXCEPT !.current_custid = None, !.current_name = None]]

\* Tab 2 without the test of the customer id.
GateOpen(custid) == TRUE

\* "if custid:" (line 111)
Gate(custid) == TruthyInt(custid)

\* Tab 2 up to the button (lines 107-125, 145-149).  sel and price are the
\* stored widget values; a stored selection that is no option of this run's
\* list falls back to the first option, and widgets that are not rendered
\* lose their stored value.
Tab2(custid, books, sel, price, pressed) ==
    IF Gate(custid)
    THEN LET select_book == IF sel \in Range(books) THEN sel ELSE books[1]
         IN  IF TruthyList(select_book) /\ select_book # books[1]
             THEN [view |-> "form_button", select_book |-> select_book, price |-> price,
                   bookid |-> SplitFirst(select_book), submit |-> pressed]
             ELSE [view |-> "form_info", select_book |-> select_book, price |-> price,
                   bookid |-> << >>, submit |-> FALSE]
    ELSE [view |-> "warning", select_book |-> None, price |-> 0,
          bookid |-> << >>, submit |-> FALSE]

\* orderid = (max_orderid_result[0]['max_id'] or 0) + 1
NextOrderId(max_orderid_result) ==
    LET max_id == max_orderid_result[1].max_id
    IN  (IF max_id = None THEN 0 ELSE max_id[1]) + 1

BlankPage == [pressed |-> FALSE, tab1 |-> "none", result_list |-> << >>, tab2 |-> "none",
              books |-> << >>, errors |-> {}, faults |-> {}, exception |-> "none",
              report |-> None]

\* One execution of the script for session s (lines 50-149) with the widget
\* values w, the button pressed or not.  Each run_query call the script makes
\* meets a database that executes the statement or rejects it (Fb, Fj, Fc, Fm:
\* the statements rejected); page.faults are the rejected statements the
\* script called run_query for, page.errors those run_query reported.  The run
\* stops between the read of the max orderid and the insert (pc = "insert"):
\* they are separate statements.
ScriptRun(s, w, pressed) ==
    /\ pc[s] = "idle"
    /\ LET name == w.cust_name_input IN
       \E Fb \in SUBSET {"books"} :
       \E books_data \in RunQuery("books", Fb, SelectBooks) :
       \E Fj \in (IF name = "" THEN { {} } ELSE SUBSET {"join"}) :
       \E result_list \in (IF name = "" THEN { << >> }
                           ELSE RunQuery("join", Fj, SelectJoin(name))) :
       \E Fc \in (IF name = "" \/ TruthyList(result_list) THEN { {} }
                  ELSE SUBSET {"cust"}) :
       \E cust_info \in (IF name = "" \/ TruthyList(result_list) THEN { << >> }
                         ELSE RunQuery("cust", Fc, SelectCust(name))) :
       \E books \in { BookOptions(books_data) } :
       \E t1 \in { Tab1(InitKeys(session_state[s]), name, result_list, cust_info) } :
       \E t2 \in { Tab2(t1.ss.current_custid, books, w.book_select, w.price_input,
                        pressed) } :
       \E Fm \in (IF t2.submit THEN SUBSET {"max"} ELSE { {} }) :
       LET binds == CallBinds(MaxCallKwargs)
           max_orderid_result == IF "max" \in Fm THEN << >> ELSE SelectMax
           exception == IF ~t2.submit THEN "none"
                        ELSE IF ~binds THEN "TypeError"
                        ELSE IF max_orderid_result = << >> THEN "IndexError"
                        ELSE "none"
           reads == t2.submit /\ exception = "none"
       IN  /\ session_state' = [session_state EXCEPT ![s] = t1.ss]
           /\ widgets' = [widgets EXCEPT ![s] = [cust_name_input |-> name,
                                                 book_select |-> t2.select_book,
                                                 price_input |-> t2.price]]
           /\ page' = [page EXCEPT ![s] =
                         [pressed |-> t2.submit, tab1 |-> t1.view,
                          result_list |-> result_list, tab2 |-> t2.view,
                          books |-> books,
                          errors |-> Fb \cup Fj \cup Fc \cup (IF binds THEN Fm ELSE {}),
                          faults |-> Fb \cup Fj \cup Fc \cup Fm,
                          exception |-> exception,
                          report |-> None]]
           /\ pc' = [pc EXCEPT ![s] = IF reads THEN "insert" ELSE "idle"]
           /\ pending' = [pending EXCEPT ![s] =
                            IF reads
                            THEN Some([orderid |-> NextOrderId(max_orderid_result),
                                       custid |-> t1.ss.current_custid[1],
                                       bookid |-> t2.bookid,
                                       saleprice |-> t2.price,
                                       orderdate |-> Today])
                            ELSE None]
           /\ SelectEffect

\* The INSERT of lines 133-143 with params_insert p, the statement rejected
\* or not: run_query returns cursor.rowcount, or [] after a caught error, and
\* "row_count > 0" on a list raises TypeError.
InsertStep(s, p, rejected) ==
    /\ Orders' = IF rejected THEN Orders
                 ELSE Append(Orders, [orderid |-> p.orderid, custid |-> p.custid,
                                      bookid |-> ParseInt(p.bookid),
                                      saleprice |-> p.saleprice,
                                      orderdate |-> p.orderdate])
    /\ page' = [page EXCEPT ![s].errors = @ \cup (IF rejected THEN {"insert"} ELSE {}),
                            ![s].faults = @ \cup (IF rejected THEN {"insert"} ELSE {}),
                            ![s].exception = IF rejected THEN "TypeError" ELSE "none",
                            ![s].report = IF rejected THEN None ELSE Some(p.orderid)]
    /\ pc' = [pc EXCEPT ![s] = "idle"]
    /\ pending' = [pending EXCEPT ![s] = None]
    /\ UNCHANGED << Customer, Book, session_state, widgets >>

\* ------------------------------------------------------------ the actions
\* The browser opens the page: the first run of the script.
Connect(s) ==
    /\ page[s].tab2 = "none"
    /\ ScriptRun(s, widgets[s], FALSE)

\* The user types a name into "cust_name_input" (line 61).
EnterName(s, nm) ==
    /\ page[s].tab2 # "none"
    /\ nm # widgets[s].cust_name_input
    /\ ScriptRun(s, [widgets[s] EXCEPT !.cust_name_input = nm], FALSE)

\* The user picks an option of the selectbox "book_select" (line 116).
SelectBook(s, opt) ==
    /\ page[s].tab2 \in {"form_info", "form_button"}
    /\ opt \in Range(page[s].books)
    /\ opt # widgets[s].book_select
    /\ ScriptRun(s, [widgets[s] EXCEPT !.book_select = opt], FALSE)

\* The user enters a price into "price_input" (line 119, min_value=0).
EnterPrice(s, price) ==
    /\ page[s].tab2 \in {"form_info", "form_button"}
    /\ price >= 0
    /\ price # widgets[s].price_input
    /\ ScriptRun(s, [widgets[s] EXCEPT !.price_input = price], FALSE)

\* The order entry (lines 125-143): the click on the button runs the script
\* through the read of the max orderid; the insert is its second step.
OrderEntry(s) ==
    IF pc[s] = "insert"
    THEN \E rejected \in BOOLEAN : InsertStep(s, pending[s][1], rejected)
    ELSE /\ page[s].tab2 = "form_button"
         /\ ScriptRun(s, widgets[s], TRUE)

\* ------------------------------------------------------------ the database
CustomerTables ==
    UNION { { { [custid |-> i, name |-> f[i]] : i \in I } : f \in [I -> Names] }
            : I \in SUBSET CustIds }

\* Orders at start: ids among 1 .. MaxOrders in ascending order, every row
\* referencing a Customer row and a Book row.
OrderTables(customer, book) ==
    LET Ref == { c.custid : c \in customer } \X { b.bookid : b \in book } \X OldPrices
    IN  UNION { { LET ids == Ascending(I)
                  IN  [k \in 1 .. Len(ids) |->
                         [orderid |-> ids[k], custid |-> f[ids[k]][1],
                          bookid |-> f[ids[k]][2], saleprice |-> f[ids[k]][3],
                          orderdate |-> OldDate]]
                  : f \in [I -> Ref] }
                : I \in SUBSET (1 .. MaxOrders) }

InitFor(S) ==
    /\ Customer \in CustomerTables
    /\ Book \in BookTables
    /\ Orders \in OrderTables(Customer, Book)
    /\ session_state = [s \in S |-> [has |-> FALSE, current_custid |-> None,
                                     current_name |-> None]]
    /\ widgets = [s \in S |-> [cust_name_input |-> "", book_select |-> None,
                               price_input |-> 0]]
    /\ page = [s \in S |-> BlankPage]
    /\ pc = [s \in S |-> "idle"]
    /\ pending = [s \in S |-> None]

Init == InitFor(Sessions)

Next ==
    \/ \E s \in DOMAIN pc : Connect(s)
    \/ \E s \in DOMAIN pc : \E nm \in NameInputs : EnterName(s, nm)
    \/ \E s \in DOMAIN pc : \E opt \in Range(page[s].books) : SelectBook(s, opt)
    \/ \E s \in DOMAIN pc : \E price \in Prices : EnterPrice(s, price)
    \/ \E s \in DOMAIN pc : OrderEntry(s)

Spec == Init /\ [][Next]_vars

\* Two sessions on the one database connection, the tables fixed at a small
\* content.
InitRace ==
    /\ InitFor(RaceSessions)
    /\ Customer = { [custid |-> 1, name |-> "a"] }
    /\ Book = BookRows
    /\ Len(Orders) <= 1
    /\ \A i \in 1 .. Len(Orders) : Orders[i].orderid = MaxOrders /\ Orders[i].bookid = 1

SpecRace == InitRace /\ [][Next]_vars

\* ------------------------------------------------------------- properties
Rendered(s) == page[s].tab2 # "none"

Named(nm) == { c \in Customer : c.name = nm }

HasOrders(c) == \E i \in 1 .. Len(Orders) : Orders[i].custid = c.custid

OrderIds == { Orders[i].orderid : i \in 1 .. Len(Orders) }

MaxOf(ids) == IF ids = {} THEN 0 ELSE CHOOSE m \in ids : \A k \in ids : k <= m

\* The order entry of session s was submitted and its run has ended.
Submitted(s) == page[s].pressed /\ pc[s] = "idle"

\* C1: an order entry inserts exactly one Orders row, whose orderid is the
\* largest orderid present before the entry plus 1 (1 on an empty table): once
\* a submitted entry has ended, the last row of Orders is the entry's row, its
\* orderid reported, and one more than the largest orderid of the rows before.
C1_EntryInsertsMaxPlusOne ==
    \A s \in DOMAIN pc :
        Submitted(s) =>
            /\ Len(Orders) > 0
            /\ page[s].report = Some(Orders[Len(Orders)].orderid)
            /\ Orders[Len(Orders)].orderid
                 = MaxOf({ Orders[i].orderid : i \in 1 .. Len(Orders) - 1 }) + 1

\* C2: while a session has no selected customer, tab 2 renders no form, no
\* order entry of the session is under way and its order-entry step cannot
\* be taken; Orders stays as it is.
C2_NoEntryWithoutCustomer ==
    \A s \in DOMAIN pc :
        session_state[s].current_custid = None =>
            /\ page[s].tab2 \in { "none", "warning" }
            /\ ~page[s].pressed
            /\ pc[s] = "idle" /\ pending[s] = None
            /\ ~ENABLED OrderEntry(s)

C2_Witness ==
    \E s \in DOMAIN pc :
        /\ page[s].tab1 = "not_found"
        /\ session_state[s].current_custid = None
        /\ page[s].tab2 = "warning"
        /\ Customer # {}

\* C3: after a lookup with a non-empty name that no Customer row has, the page
\* shows the not-found result and the session has no selected customer.
C3_NotFoundClears ==
    \A s \in DOMAIN pc :
        (Rendered(s) /\ widgets[s].cust_name_input # ""
                     /\ Named(widgets[s].cust_name_input) = {}) =>
            /\ page[s].tab1 = "not_found"
            /\ session_state[s].current_custid = None

C3_Witness ==
    \E s \in DOMAIN pc :
        /\ Rendered(s) /\ widgets[s].cust_name_input # ""
        /\ Named(widgets[s].cust_name_input) = {}
        /\ page[s].errors = {}
        /\ \E c \in Customer : c.custid # 0

\* The two queries of the lookup were executed, none rejected.
LookupSucceeded(s) == page[s].errors \cap { "join", "cust" } = {}

\* C4 as stated: after a successful lookup with the name of a Customer row that
\* has no Orders rows, the order list is empty and that customer's id and the
\* name are the session's selected customer.
C4_ThatCustomerSelected ==
    \A s \in DOMAIN pc : \A c \in Customer :
        (Rendered(s) /\ widgets[s].cust_name_input = c.name
                     /\ LookupSucceeded(s) /\ ~HasOrders(c)) =>
            /\ page[s].tab1 = "no_orders"
            /\ page[s].result_list = << >>
            /\ session_state[s].current_custid = Some(c.custid)
            /\ session_state[s].current_name = Some(c.name)

\* C4 amended: after a successful lookup with a name that some Customer row
\* has, no customer of that name having an Orders row, the order list is empty
\* and the id of one customer of that name, with the name, is the session's
\* selected customer.
C4_SomeNamesakeSelected ==
    \A s \in DOMAIN pc :
        LET nm == widgets[s].cust_name_input IN
        (Rendered(s) /\ nm # "" /\ LookupSucceeded(s)
                     /\ Named(nm) # {} /\ \A c \in Named(nm) : ~HasOrders(c)) =>
            /\ page[s].tab1 = "no_orders"
            /\ page[s].result_list = << >>
            /\ \E c \in Named(nm) : session_state[s].current_custid = Some(c.custid)
            /\ session_state[s].current_name = Some(nm)

C4_Witness ==
    \E s \in DOMAIN pc :
        LET nm == widgets[s].cust_name_input IN
        /\ Rendered(s) /\ nm # "" /\ LookupSucceeded(s)
        /\ Cardinality(Named(nm)) = 2 /\ \A c \in Named(nm) : ~HasOrders(c)
        /\ page[s].tab1 = "no_orders"

\* The rows of Customer JOIN Orders JOIN Book for a name, by definition of the
\* join: one row for every triple of a customer of that name, an order of that
\* customer and the book of that order.
JoinTriples(nm) ==
    { t \in Customer \X (1 .. Len(Orders)) \X Book :
        /\ t[1].name = nm
        /\ Orders[t[2]].custid = t[1].custid
        /\ Orders[t[2]].bookid = t[3].bookid }

JoinRow(t) ==
    [custid |-> Orders[t[2]].custid, name |-> t[1].name, bookname |-> t[3].bookname,
     orderdate |-> Orders[t[2]].orderdate, saleprice |-> Orders[t[2]].saleprice]

\* C5: after a lookup with a name that has orders, the join query executed,
\* the rows returned are exactly the rows of the join for that name (each as
\* often as the join has it), and the selected customer is a customer of that
\* name, stored with the name.
C5_LookupReturnsJoin ==
    \A s \in DOMAIN pc :
        LET nm == widgets[s].cust_name_input
            rl == page[s].result_list
        IN  (Rendered(s) /\ nm # "" /\ "join" \notin page[s].errors
                         /\ JoinTriples(nm) # {}) =>
                /\ page[s].tab1 = "orders"
                /\ Len(rl) = Cardinality(JoinTriples(nm))
                /\ \A t \in JoinTriples(nm) :
                     Cardinality({ i \in 1 .. Len(rl) : rl[i] = JoinRow(t) })
                       = Cardinality({ u \in JoinTriples(nm) : JoinRow(u) = JoinRow(t) })
                /\ \E c \in Named(nm) : session_state[s].current_custid = Some(c.custid)
                /\ session_state[s].current_name = Some(nm)

C5_Witness ==
    \E s \in DOMAIN pc :
        LET nm == widgets[s].cust_name_input IN
        /\ Rendered(s) /\ nm # "" /\ "join" \notin page[s].errors
        /\ Len(page[s].result_list) = 2
        /\ page[s].result_list[1].bookname # page[s].result_list[2].bookname
        /\ page[s].result_list[1].custid # page[s].result_list[2].custid
        /\ Cardinality(Customer) = 2

\* C6: every submitted order entry ends with exactly one report, success with
\* the new orderid or the failure of the insert.
EntryReports(s) ==
    (IF page[s].report # None THEN { "success" } ELSE {})
    \cup (IF "insert" \in page[s].errors THEN { "failure" } ELSE {})

C6_OneReportPerEntry ==
    \A s \in DOMAIN pc : Submitted(s) => Cardinality(EntryReports(s)) = 1

\* C7: a run in which the database rejected a statement of the book list
\* load, the lookup, the read of the max orderid or the insert reported every
\* rejected statement as a message and ended without an uncaught exception.
C7_FailuresCaught ==
    \A s \in DOMAIN pc :
        (pc[s] = "idle" /\ page[s].faults # {}) =>
            /\ page[s].faults \subseteq page[s].errors
            /\ page[s].exception = "none"

\* C8: after a lookup that resolved an existing customer (with or without
\* orders), whatever its id, tab 2 offers the order entry.
C8_ResolvedEnablesEntry ==
    \A s \in DOMAIN pc :
        page[s].tab1 \in { "orders", "no_orders" } =>
            page[s].tab2 \in { "form_info", "form_button" }

\* C9: the read of the max orderid and the insert are separate steps of an
\* order entry: a submitted entry is between the two, holding the orderid it
\* computed, or has inserted its row under the orderid it reports.
C9_ReadThenInsert ==
    \A s \in DOMAIN pc :
        page[s].pressed =>
            \/ pc[s] = "insert" /\ pending[s] # None
            \/ pc[s] = "idle" /\ page[s].report # None
                              /\ page[s].report[1] \in OrderIds

====
